---- MODULE Spec2Model ----
(***************************************************************************)
(* Shader parameter binding of src/render/shade.rs: the trivial value      *)
(* source `()` (EmptyProgram) and the shared ParamDictionary               *)
(* (DictionaryProgram), with the slot buffer ParamValues they fill.        *)
(***************************************************************************)
EXTENDS Naturals, Sequences, FiniteSets

\* ------------------------------------------------------------------ bounds
\* Most variables a program descriptor declares, over its three collections.
MaxVars == 2
\* Most cells a dictionary holds, over its three collections.
MaxCells == 2
\* Most slots a caller's ParamValues holds, over its three collections.
MaxSlots == 2
\* Most DictionaryPrograms connected to the one dictionary.
MaxProgs == 2

Names == {"a", "b"}
Values == {0, 1}
Kinds == {"uniforms", "blocks", "textures"}

\* ------------------------------------------------------------ value types
None == [tag |-> "None"]
Some(v) == [tag |-> "Some", val |-> v]
Ok(v) == [tag |-> "Ok", val |-> v]
Err(e) == [tag |-> "Err", err |-> e]
Unit == [tag |-> "Unit"]
\* The call returned: () from a fill or a Cell::set, Ok(_) from a connect,
\* whose program is then in progs or empty.
Returned == [tag |-> "Returned"]
\* The call did not return: the task failed, at an unwrap of None
\* ("unwrap"), an index out of range ("index") or a debug_assert ("assert").
Panic(site) == [tag |-> "Panic", site |-> site]
NoProg == [tag |-> "NoProg"]

ErrorUniform(n) == [variant |-> "ErrorUniform", name |-> n]
ErrorBlock(n) == [variant |-> "ErrorBlock", name |-> n]
ErrorTexture(n) == [variant |-> "ErrorTexture", name |-> n]
ErrorInternal == [variant |-> "ErrorInternal"]

BSeq(S, n) == UNION {[1..k -> S] : k \in 0..n}
Total(r) == Len(r.uniforms) + Len(r.blocks) + Len(r.textures)

\* A descriptor variable carries its name; a dictionary cell a name and a value.
Var(n) == [name |-> n]
NamedCell(n, v) == [name |-> n, value |-> v]
VarSet == {Var(n) : n \in Names}
NamedCells == {NamedCell(n, v) : n \in Names, v \in Values}

Distinct(s) == \A i, j \in 1..Len(s) : i # j => s[i].name # s[j].name

\* s::ProgramInfo as this file reads it: three ordered lists of named
\* variables, names unique within each list.
InfoRecords ==
    {info \in [uniforms : BSeq(VarSet, MaxVars), blocks : BSeq(VarSet, MaxVars),
               textures : BSeq(VarSet, MaxVars)] :
        /\ Total(info) <= MaxVars
        /\ \A k \in Kinds : Distinct(info[k])}

\* The same set, enumerated once.
Infos == {info : info \in InfoRecords}

\* ParamDictionary: three lists of named cells; nothing in the code keeps
\* the names of one list apart.
Dictionaries ==
    {d \in [uniforms : BSeq(NamedCells, MaxCells), blocks : BSeq(NamedCells, MaxCells),
            textures : BSeq(NamedCells, MaxCells)] : Total(d) <= MaxCells}

\* The lengths a caller may give the three slices of a ParamValues.
Shapes ==
    {s \in [uniforms : 0..MaxSlots, blocks : 0..MaxSlots, textures : 0..MaxSlots] :
        s.uniforms + s.blocks + s.textures <= MaxSlots}

VARIABLES data, written, progs, empty, params, res

vars == <<data, written, progs, empty, params, res>>

\* ------------------------------------------------- the trivial source `()`
\* slice.head(): the first element, if any.
SliceHead(s) == IF Len(s) = 0 THEN None ELSE Some(s[1])

\* create_link without its third match: textures go unchecked.
CreateLinkUnitNoTextures(info) ==
    IF SliceHead(info.uniforms).tag = "Some"
    THEN Err(ErrorUniform(SliceHead(info.uniforms).val.name))
    ELSE IF SliceHead(info.blocks).tag = "Some"
    THEN Err(ErrorBlock(SliceHead(info.blocks).val.name))
    ELSE Ok(Unit)

\* create_link with its first two matches in the other order.
CreateLinkUnitBlocksFirst(info) ==
    IF SliceHead(info.blocks).tag = "Some"
    THEN Err(ErrorBlock(SliceHead(info.blocks).val.name))
    ELSE IF SliceHead(info.uniforms).tag = "Some"
    THEN Err(ErrorUniform(SliceHead(info.uniforms).val.name))
    ELSE IF SliceHead(info.textures).tag = "Some"
    THEN Err(ErrorTexture(SliceHead(info.textures).val.name))
    ELSE Ok(Unit)

\* ShaderParam<()>::create_link: uniforms, then blocks, then textures.
CreateLinkUnit(info) ==
    IF SliceHead(info.uniforms).tag = "Some"
    THEN Err(ErrorUniform(SliceHead(info.uniforms).val.name))
    ELSE IF SliceHead(info.blocks).tag = "Some"
    THEN Err(ErrorBlock(SliceHead(info.blocks).val.name))
    ELSE IF SliceHead(info.textures).tag = "Some"
    THEN Err(ErrorTexture(SliceHead(info.textures).val.name))
    ELSE Ok(Unit)

\* UserProgram::connect: create_link, and on Ok the program with its link.
UserProgramConnect(info) ==
    LET link == CreateLinkUnit(info)
    IN  IF link.tag = "Ok" THEN Ok([info |-> info, link |-> link.val]) ELSE link

\* The debug_assert of `Program for &EmptyProgram`.
AllEmpty(pv) == Len(pv.uniforms) = 0 /\ Len(pv.blocks) = 0 /\ Len(pv.textures) = 0

\* ------------------------------------------------------- the dictionary
\* position counting from 1.
PositionOneBased(cells, name) ==
    LET hits == {j \in 1..Len(cells) : cells[j].name = name}
    IN  IF hits = {} THEN None
        ELSE Some(CHOOSE j \in hits : \A k \in hits : j <= k)

\* position with unwrap_or(0) folded in: a missing name gives index 0.
PositionOrZero(cells, name) ==
    LET hits == {j \in 1..Len(cells) : cells[j].name = name}
    IN  IF hits = {} THEN Some(0)
        ELSE Some((CHOOSE j \in hits : \A k \in hits : j <= k) - 1)

\* iter().position(|c| c.name == name): the 0-based index of the first cell
\* of that name, if any.
Position(cells, name) ==
    LET hits == {j \in 1..Len(cells) : cells[j].name = name}
    IN  IF hits = {} THEN None
        ELSE Some((CHOOSE j \in hits : \A k \in hits : j <= k) - 1)

\* map(|var| position(..)) over one descriptor collection, before unwrap().
Lookups(vs, cells) == [i \in 1..Len(vs) |-> Position(cells, vs[i].name)]

AllSome(s) == \A i \in 1..Len(s) : s[i].tag = "Some"
Unwrap(s) == [i \in 1..Len(s) |-> s[i].val]

\* connect looking the textures up among the uniform cells.
DictionaryProgramConnectMixed(info, d) ==
    LET u == Lookups(info.uniforms, d.uniforms)
        b == Lookups(info.blocks, d.blocks)
        t == Lookups(info.textures, d.uniforms)
    IN  IF AllSome(u) /\ AllSome(b) /\ AllSome(t)
        THEN Ok([info |-> info,
                 link |-> [uniforms |-> Unwrap(u), blocks |-> Unwrap(b),
                           textures |-> Unwrap(t)]])
        ELSE Panic("unwrap")

\* DictionaryProgram::connect: the three index lists, each entry unwrapped;
\* an unwrap of None fails the task before any DictionaryProgram exists.
DictionaryProgramConnect(info, d) ==
    LET u == Lookups(info.uniforms, d.uniforms)
        b == Lookups(info.blocks, d.blocks)
        t == Lookups(info.textures, d.textures)
    IN  IF AllSome(u) /\ AllSome(b) /\ AllSome(t)
        THEN Ok([info |-> info,
                 link |-> [uniforms |-> Unwrap(u), blocks |-> Unwrap(b),
                           textures |-> Unwrap(t)]])
        ELSE Panic("unwrap")

\* The loop writing only the slots that are None.
FillSliceKeep(link, cells, slots) ==
    LET n == IF Len(link) <= Len(slots) THEN Len(link) ELSE Len(slots)
        bad == {i \in 1..n : link[i] >= Len(cells)}
        stop == IF bad = {} THEN n
                ELSE (CHOOSE i \in bad : \A k \in bad : i <= k) - 1
    IN  [slots |-> [i \in 1..Len(slots) |->
                        IF i <= stop /\ slots[i] = None
                        THEN Some(cells[link[i] + 1].value)
                        ELSE slots[i]],
         ok |-> bad = {}]

\* The loop resetting the slots past the link to None.
FillSliceClear(link, cells, slots) ==
    LET n == IF Len(link) <= Len(slots) THEN Len(link) ELSE Len(slots)
        bad == {i \in 1..n : link[i] >= Len(cells)}
        stop == IF bad = {} THEN n
                ELSE (CHOOSE i \in bad : \A k \in bad : i <= k) - 1
    IN  [slots |-> [i \in 1..Len(slots) |->
                        IF i <= stop THEN Some(cells[link[i] + 1].value)
                        ELSE IF i > Len(link) THEN None
                        ELSE slots[i]],
         ok |-> bad = {}]

\* One loop of fill_params: zip stops at the shorter of link and slots; the
\* indexing cells[id] fails the task when id is out of range, the slots
\* before it already written.
FillSlice(link, cells, slots) ==
    LET n == IF Len(link) <= Len(slots) THEN Len(link) ELSE Len(slots)
        bad == {i \in 1..n : link[i] >= Len(cells)}
        stop == IF bad = {} THEN n
                ELSE (CHOOSE i \in bad : \A k \in bad : i <= k) - 1
    IN  [slots |-> [i \in 1..Len(slots) |->
                        IF i <= stop THEN Some(cells[link[i] + 1].value)
                        ELSE slots[i]],
         ok |-> bad = {}]

\* Program for &DictionaryProgram :: fill_params: uniforms, blocks, textures.
FillParams(prog, d, pv) ==
    LET u == FillSlice(prog.link.uniforms, d.uniforms, pv.uniforms)
        b == IF u.ok THEN FillSlice(prog.link.blocks, d.blocks, pv.blocks)
             ELSE [slots |-> pv.blocks, ok |-> FALSE]
        t == IF b.ok THEN FillSlice(prog.link.textures, d.textures, pv.textures)
             ELSE [slots |-> pv.textures, ok |-> FALSE]
    IN  [params |-> [uniforms |-> u.slots, blocks |-> b.slots, textures |-> t.slots],
         out |-> IF t.ok THEN Returned ELSE Panic("index")]

\* The write landing in the first cell of the collection.
CellSetFirst(d, k, j, v) == [d EXCEPT ![k][1].value = v]

\* Cell::set on one cell of one collection.
CellSetValue(d, k, j, v) == [d EXCEPT ![k][j].value = v]

\* A caller's fresh ParamValues of the given lengths: every slot None.
NewParams(shape) ==
    [uniforms |-> [i \in 1..shape.uniforms |-> None],
     blocks |-> [i \in 1..shape.blocks |-> None],
     textures |-> [i \in 1..shape.textures |-> None]]

\* ----------------------------------------------------------------- state
\* data     the shared ParamDictionary (Rc<ParamDictionary>)
\* written  history: per cell, the value most recently stored in it
\* progs    the DictionaryPrograms connected to data
\* empty    the EmptyProgram, NoProg before a successful connect
\* params   the caller's ParamValues
\* res      what the last call returned
Init ==
    /\ data \in Dictionaries
    /\ written = [k \in Kinds |-> [j \in 1..Len(data[k]) |-> data[k][j].value]]
    /\ progs = {}
    /\ empty = NoProg
    /\ params \in {NewParams(s) : s \in Shapes}
    /\ res = Returned

\* A failed task runs nothing more.
Alive == res.tag # "Panic"

\* DictionaryProgram::connect(prog, data.clone())
Connect(info) ==
    LET r == DictionaryProgramConnect(info, data)
    IN  /\ Alive
        /\ Cardinality(progs) < MaxProgs
        /\ UNCHANGED <<data, written, empty, params>>
        /\ res' = (IF r.tag = "Ok" THEN Returned ELSE r)
        /\ progs' = (IF r.tag = "Ok" THEN progs \cup {r.val} ELSE progs)

\* data.<k>[j].value.set(v)
SetCell(k, j, v) ==
    /\ Alive
    /\ j \in 1..Len(data[k])
    /\ UNCHANGED <<progs, empty, params>>
    /\ data' = CellSetValue(data, k, j, v)
    /\ written' = [written EXCEPT ![k][j] = v]
    /\ res' = Returned

\* The fill reading each cell with a take: the cells it read are left 0.
FillTaking(prog) ==
    LET r == FillParams(prog, data, params)
    IN  /\ Alive
        /\ UNCHANGED <<written, progs, empty>>
        /\ data' = [k \in Kinds |-> [j \in 1..Len(data[k]) |->
                        IF \E i \in 1..Len(prog.link[k]) :
                              i <= Len(params[k]) /\ prog.link[k][i] = j - 1
                        THEN NamedCell(data[k][j].name, 0)
                        ELSE data[k][j]]]
        /\ params' = r.params
        /\ res' = r.out

\* (&prog).fill_params(params)
Fill(prog) ==
    LET r == FillParams(prog, data, params)
    IN  /\ Alive
        /\ UNCHANGED <<data, written, progs, empty>>
        /\ params' = r.params
        /\ res' = r.out

\* EmptyProgram::connect(prog), that is UserProgram<(), ()>::connect; one
\* EmptyProgram is connected at most.
ConnectEmpty(info) ==
    LET r == UserProgramConnect(info)
    IN  /\ Alive
        /\ empty = NoProg
        /\ UNCHANGED <<data, written, progs, params>>
        /\ res' = (IF r.tag = "Ok" THEN Returned ELSE r)
        /\ empty' = (IF r.tag = "Ok" THEN r.val ELSE empty)

\* (&empty).fill_params(params): the debug_assert is compiled in or out.
FillEmpty ==
    /\ Alive
    /\ empty # NoProg
    /\ UNCHANGED <<data, written, progs, empty, params>>
    /\ res' \in (IF AllEmpty(params) THEN {Returned} ELSE {Returned, Panic("assert")})

\* (&empty, &()).fill_params(params): ShaderParam<()>::fill_params, empty.
FillUnit ==
    /\ Alive
    /\ empty # NoProg
    /\ UNCHANGED <<data, written, progs, empty, params>>
    /\ res' = Returned

\* The dictionary binder.
Next ==
    \/ \E info \in Infos : Connect(info)
    \/ \E k \in Kinds, j \in 1..MaxCells, v \in Values : SetCell(k, j, v)
    \/ \E prog \in progs : Fill(prog)

Spec == Init /\ [][Next]_vars

\* The trivial binder.
NextTrivial ==
    \/ \E info \in Infos : ConnectEmpty(info)
    \/ FillEmpty
    \/ FillUnit

\* The trivial binder reads no dictionary: one of a cell at most stands by.
InitTrivial == Init /\ Total(data) <= 1

SpecTrivial == InitTrivial /\ [][NextTrivial]_vars

\* Both binders in one program.
NextAll == Next \/ NextTrivial

SpecAll == Init /\ [][NextAll]_vars

\* ---------------------------------------------------------------- claims
SizedTo(pv, info) == \A k \in Kinds : Len(pv[k]) = Len(info[k])

\* The cell a name stands for: the first cell of its collection carrying it.
CellNamed(cells, name) ==
    cells[CHOOSE j \in 1..Len(cells) :
            /\ cells[j].name = name
            /\ \A h \in 1..(j - 1) : cells[h].name # name]

HasName(cells, name) == \E j \in 1..Len(cells) : cells[j].name = name

\* Some variable of the descriptor has no cell of its name in the collection
\* of its kind.
Missing(info, d) ==
    \E k \in Kinds : \E i \in 1..Len(info[k]) : ~HasName(d[k], info[k][i].name)

\* C1: create_link on the trivial source returns Ok(()) exactly for the
\* descriptors whose three collections are all empty, and Err for every other.
C1_OkIffEmptyDescriptor ==
    [][\A info \in Infos : ConnectEmpty(info) =>
          /\ (res' = Returned) <=> (Total(info) = 0)
          /\ (Total(info) > 0) => (res'.tag = "Err")
          /\ (res' = Returned) => (empty' # NoProg /\ Total(empty'.info) = 0)]_vars

\* create_link has returned Ok(()) and the EmptyProgram is connected.
C1_Witness == empty # NoProg /\ Total(empty.info) = 0 /\ res = Returned

\* The error create_link owes a descriptor: its first uniform, else its
\* first block, else its first texture.
FirstOffender(info) ==
    IF Len(info.uniforms) > 0 THEN ErrorUniform(info.uniforms[1].name)
    ELSE IF Len(info.blocks) > 0 THEN ErrorBlock(info.blocks[1].name)
    ELSE ErrorTexture(info.textures[1].name)

\* C2: a failing create_link on the trivial source names the first uniform
\* if there is one, else the first block, else the first texture, and never
\* returns ErrorInternal.
C2_FirstOffenderInPriorityOrder ==
    [][\A info \in Infos : (ConnectEmpty(info) /\ res'.tag = "Err") =>
          /\ res'.err = FirstOffender(info)
          /\ res'.err # ErrorInternal]_vars

\* create_link failed on a block: the descriptor had no uniform.
C2_Witness == res.tag = "Err" /\ res.err.variant = "ErrorBlock"

\* C3: every connected DictionaryProgram has, per collection, one link entry
\* per descriptor variable, in descriptor order, each an in-range index of a
\* cell of the same kind that carries the variable's name.
C3_LinkMatchesDescriptor ==
    \A prog \in progs : \A k \in Kinds :
        /\ Len(prog.link[k]) = Len(prog.info[k])
        /\ \A i \in 1..Len(prog.info[k]) :
              /\ prog.link[k][i] \in 0..(Len(data[k]) - 1)
              /\ data[k][prog.link[k][i] + 1].name = prog.info[k][i].name

\* A program of two variables is connected, one of them not at index 0.
C3_Witness ==
    \E prog \in progs :
        /\ Total(prog.info) >= 2
        /\ \E k \in Kinds : \E i \in 1..Len(prog.link[k]) : prog.link[k][i] > 0

\* C4: a fill into a buffer sized to the program's descriptor leaves every
\* slot Some(v), v the current value of the cell named like the slot's
\* descriptor variable, whatever the slot held.
C4_FillOverwritesEverySlot ==
    [][\A prog \in progs : (Fill(prog) /\ SizedTo(params, prog.info)) =>
          \A k \in Kinds : \A i \in 1..Len(params'[k]) :
              params'[k][i] = Some(CellNamed(data[k], prog.info[k][i].name).value)]_vars

\* A non-empty buffer sized to a connected program holds that program's fill.
C4_Witness ==
    \E prog \in progs :
        /\ Total(prog.info) > 0
        /\ SizedTo(params, prog.info)
        /\ \A k \in Kinds : \A i \in 1..Len(params[k]) :
              params[k][i] = Some(CellNamed(data[k], prog.info[k][i].name).value)

\* The slots one loop of a fill writes.
ZipRange(prog, pv, k) ==
    1..(IF Len(prog.link[k]) <= Len(pv[k]) THEN Len(prog.link[k]) ELSE Len(pv[k]))

\* C5: every fill outputs, per slot, the value most recently stored in the
\* referenced cell; a cell write leaves the buffer of an earlier fill as it
\* is, and changes what a fill outputs only for the slots referencing the
\* written cell.
C5_LastWriterWinsNoRetroaction ==
    [][/\ \A prog \in progs : Fill(prog) =>
              \A k \in Kinds : \A i \in ZipRange(prog, params, k) :
                  params'[k][i] = Some(written[k][prog.link[k][i] + 1])
       /\ \A k \in Kinds, j \in 1..MaxCells, v \in Values : SetCell(k, j, v) =>
              /\ params' = params
              /\ \A prog \in progs : \A h \in Kinds : \A i \in ZipRange(prog, params, h) :
                    IF h = k /\ prog.link[h][i] = j - 1
                    THEN FillParams(prog, data', params).params[h][i] = Some(v)
                    ELSE FillParams(prog, data', params).params[h][i]
                            = FillParams(prog, data, params).params[h][i]]_vars

\* Two programs are linked to one cell, and the buffer still holds a value
\* that cell had before it was written again.
C5_Witness ==
    \E p, q \in progs : \E k \in Kinds :
        /\ p # q
        /\ \E i \in ZipRange(p, params, k) : \E h \in 1..Len(q.link[k]) :
              /\ q.link[k][h] = p.link[k][i]
              /\ params[k][i].tag = "Some"
              /\ params[k][i].val # data[k][p.link[k][i] + 1].value

\* C6: a fill changes neither the dictionary nor the programs and their
\* links, and the same fill made again right after it leaves the buffer as
\* the first left it; the fills of the trivial binder do not touch the buffer.
C6_FillIdempotent ==
    [][/\ \A prog \in progs : (res' \in {Returned, Panic("index")} /\ Fill(prog)) =>
              /\ data' = data /\ progs' = progs /\ empty' = empty
              /\ prog \in progs'
              /\ FillParams(prog, data', params').params = params'
       /\ (FillEmpty \/ FillUnit) =>
              (params' = params /\ data' = data /\ progs' = progs /\ empty' = empty)]_vars

\* The buffer holds what a connected program fills in, some slot of it.
C6_Witness ==
    \E prog \in progs :
        /\ FillParams(prog, data, params).params = params
        /\ \E k \in Kinds : \E i \in ZipRange(prog, params, k) : params[k][i].tag = "Some"

\* C7: DictionaryProgram::connect returns Ok or Err(ParameterError) for
\* every descriptor and dictionary, and never aborts; a name missing from the
\* dictionary gives a ParameterError.
C7_ConnectTotal ==
    [][\A info \in Infos : Connect(info) =>
          /\ res'.tag # "Panic"
          /\ Missing(info, data) => res'.tag = "Err"]_vars

\* C8: no step yields a DictionaryProgram from a connect against a
\* descriptor with a name the dictionary lacks, and every program a step
\* yields has each link entry on a cell of its variable's name.
C8_NoLinkOnMissingName ==
    [][(progs' # progs) =>
          /\ \A info \in Infos : Connect(info) => ~Missing(info, data)
          /\ \A prog \in progs' \ progs : \A k \in Kinds :
                \A i \in 1..Len(prog.link[k]) :
                    /\ i <= Len(prog.info[k])
                    /\ prog.link[k][i] < Len(data[k])
                    /\ data[k][prog.link[k][i] + 1].name = prog.info[k][i].name]_vars

\* A connect failed on a missing name after another had succeeded.
C8_Witness == res = Panic("unwrap") /\ progs # {}

\* C9: every link index of a connected program is in range of its
\* collection and no fill has failed on an index; the asserting fill of an
\* EmptyProgram has not failed on a buffer sized to its descriptor, which is
\* empty.
C9_FillNeverFails ==
    /\ \A prog \in progs : \A k \in Kinds : \A i \in 1..Len(prog.link[k]) :
          prog.link[k][i] < Len(data[k])
    /\ res # Panic("index")
    /\ empty # NoProg => Total(empty.info) = 0
    /\ res = Panic("assert") => (empty # NoProg /\ ~SizedTo(params, empty.info))

\* An EmptyProgram and a DictionaryProgram reading the last of two cells are
\* connected, and the fills have returned.
C9_Witness ==
    /\ empty # NoProg
    /\ res = Returned
    /\ \E prog \in progs : \E k \in Kinds : \E i \in ZipRange(prog, params, k) :
          /\ prog.link[k][i] = 1
          /\ params[k][i].tag = "Some"

\* C10: a dictionary fill returns, keeps the three lengths of the buffer,
\* and leaves every slot past the link's length as it was; a buffer shorter
\* than the link gets its existing slots written.
C10_FillFrame ==
    [][\A prog \in progs : Fill(prog) =>
          /\ res' = Returned
          /\ \A k \in Kinds :
                /\ Len(params'[k]) = Len(params[k])
                /\ \A i \in 1..Len(params[k]) :
                      IF i > Len(prog.link[k]) THEN params'[k][i] = params[k][i]
                      ELSE params'[k][i].tag = "Some"]_vars

\* A slot past the link of a connected program holds a value while the
\* slots before it hold that program's fill.
C10_Witness ==
    \E prog \in progs : \E k \in Kinds :
        /\ Len(prog.link[k]) > 0
        /\ Len(params[k]) > Len(prog.link[k])
        /\ params[k][Len(params[k])].tag = "Some"
        /\ FillParams(prog, data, params).params = params

====
